---- MODULE Spec2Model ----
(***************************************************************************)
(* SnapRead - RSVP playback engine (src/js/rsvp-engine.js).                *)
(*                                                                         *)
(* The engine is a single-threaded object driven by public calls and by    *)
(* the callbacks of the timers it arms with setTimeout.  A state of the    *)
(* model is the engine between two synchronous turns: its fields, the set  *)
(* of timers that are armed and have not yet fired, and the events the     *)
(* last turn emitted.  A word is a sequence of one-character strings.      *)
(***************************************************************************)
EXTENDS Integers, Sequences, FiniteSets, TLC

(* ------------------------------ bounds -------------------------------- *)

\* longest word sequence handed to load()
MaxWords == 2
\* most timers armed at once (play() is not called beyond it)
MaxPending == 2
\* largest count passed to rewind and skip, and how far outside the sequence
\* the position is followed
MaxDrift == 1
\* most callbacks registered on one channel
MaxListeners == 2

(* ----------------------------- inputs --------------------------------- *)

\* the text the loaded sequences are prefixes of
Text ==
    << <<"A">>,
       <<"q","u","i","c","k",".">>,
       <<"b","r","o","w","n">>,
       <<"f","o","x">>,
       <<"j","u","m","p","e","d",".">>,
       <<"T","h","e","n",",">>,
       <<"i","t">>,
       <<"s","l","e","p","t","!">> >>

Docs == { SubSeq(Text, 1, n) : n \in 0..MaxWords }

\* startIndex and index arguments: below, inside and beyond a sequence
StartIndexes == (0 - 1)..(MaxWords + 1)
\* count arguments of rewind and skip
Counts == (0 - 1)..MaxDrift
\* positions the model follows (navigation is not taken beyond them)
Positions == (0 - MaxDrift)..(MaxWords + MaxDrift)
Rates == {40, 300, 2000}
Sizes == {0, 3, 4}

\* timerId before any timer was armed, and after _clearTimer
null == 0

\* what a call without a return statement returns
undefined == "undefined"

TimerIds == 1..MaxPending

\* the channels callbacks are registered on, and the callbacks
Channels == {"pause", "speedChange"}
Callbacks == {"cb1", "cb2"}

VARIABLES
    words,          \* this.words
    currentIndex,   \* this.currentIndex
    isPlaying,      \* this.isPlaying
    isPaused,       \* this.isPaused
    timerId,        \* this.timerId
    wpm,            \* this.wpm
    chunkSize,      \* this.chunkSize
    pending,        \* timers armed by setTimeout that have not fired nor been cleared
    emitted,        \* events emitted by the last turn, in order
    scheduled,      \* setTimeout calls of the last turn: the id returned, the delay passed
    _listeners,     \* this._listeners: the callbacks of each channel that has an array
    invoked,        \* callback calls made by the last turn, in order, each with its event
    handles,        \* the unsubscribe closures on() returned, each as <<event, callback>>
    lastOp,         \* the call (or "fire") the last turn was
    lastArg,        \* the arguments of that call: <<>> when it passed none
    returned,       \* what that call returned
    wasAtEnd,       \* the position was at or past the end when the last turn began
    halted,         \* pause(), stop() or load() returned and play() was not called since
    race,           \* "armed" after play() from a non-playing state, "paused" once
                    \* pause() follows it in the same turn, until play() is called again
    raceTimer       \* the timer armed by the play() that set race

engine == <<words, currentIndex, isPlaying, isPaused, timerId, wpm, chunkSize>>
ghost == <<lastOp, lastArg, returned, wasAtEnd, halted, race, raceTimer>>
vars == <<words, currentIndex, isPlaying, isPaused, timerId, wpm, chunkSize,
          pending, emitted, scheduled, _listeners, invoked, handles,
          lastOp, lastArg, returned, wasAtEnd, halted, race, raceTimer>>

(* ----------------------------- helpers -------------------------------- *)

Min(a, b) == IF a < b THEN a ELSE b
Max(a, b) == IF a > b THEN a ELSE b

\* words[i] of a JavaScript array: undefined outside it, and join() prints
\* undefined as the empty string
WordAt(ws, i) == IF i >= 0 /\ i < Len(ws) THEN ws[i + 1] ELSE <<>>

RECURSIVE Join(_)
\* chunk.join(' ')
Join(chunk) ==
    IF Len(chunk) = 0 THEN <<>>
    ELSE IF Len(chunk) = 1 THEN chunk[1]
    ELSE chunk[1] \o <<" ">> \o Join(Tail(chunk))

\* the for loop that collects the chunk at idx
Chunk(ws, idx, size) ==
    LET n == Max(0, Min(size, Len(ws) - idx))
    IN  [i \in 1..n |-> WordAt(ws, idx + i - 1)]

DisplayWord(ws, idx, size) == Join(Chunk(ws, idx, size))

(* ------------------------------- ORP ---------------------------------- *)

Letters ==
    {"a","b","c","d","e","f","g","h","i","j","k","l","m",
     "n","o","p","q","r","s","t","u","v","w","x","y","z",
     "A","B","C","D","E","F","G","H","I","J","K","L","M",
     "N","O","P","Q","R","S","T","U","V","W","X","Y","Z"}
Digits == {"0","1","2","3","4","5","6","7","8","9"}
\* two characters of the range U+00C0..U+00FF, a letter and a sign
Accented == {"e-acute", "times-sign"}
\* [a-zA-Z0-9\u00C0-\u00FF'-] of calculateORP
OrpChars == Letters \cup Digits \cup Accented \cup {"'", "-"}

CleanLen(word, keep) == Cardinality({i \in 1..Len(word) : word[i] \in keep})

\* calculateORP that takes the length of the word as it is
calculateORPRaw(word) ==
    LET len == Len(word)
    IN  IF len <= 0 THEN 0
        ELSE IF len = 1 THEN 0
        ELSE IF len = 2 THEN 0
        ELSE IF len = 3 THEN 1
        ELSE (len * 35) \div 100

\* Math.floor(len * 0.35) is (len * 35) \div 100 for len < 180; in doubles it
\* is one less at len = 180, 340 and 360
calculateORP(word) ==
    LET len == CleanLen(word, OrpChars)
    IN  IF len <= 0 THEN 0
        ELSE IF len = 1 THEN 0
        ELSE IF len = 2 THEN 0
        ELSE IF len = 3 THEN 1
        ELSE (len * 35) \div 100

\* word.substring(from, to) for 0 <= from
Substring(word, from, to) == SubSeq(word, Min(from, Len(word)) + 1, Min(to, Len(word)))

\* splitAtORP whose rest starts at the ORP character
splitAtORPKeeps(word) ==
    LET orpIndex == calculateORP(word)
    IN  [before |-> Substring(word, 0, orpIndex),
         orp |-> IF orpIndex < Len(word) THEN <<word[orpIndex + 1]>> ELSE <<>>,
         after |-> Substring(word, orpIndex, Len(word)),
         orpIndex |-> orpIndex,
         wordLength |-> Len(word)]

\* splitAtORP whose rest starts one character late
splitAtORPShort(word) ==
    LET orpIndex == calculateORP(word)
    IN  [before |-> Substring(word, 0, orpIndex),
         orp |-> IF orpIndex < Len(word) THEN <<word[orpIndex + 1]>> ELSE <<>>,
         after |-> Substring(word, orpIndex + 2, Len(word)),
         orpIndex |-> orpIndex,
         wordLength |-> Len(word)]

splitAtORP(word) ==
    LET orpIndex == calculateORP(word)
    IN  [before |-> Substring(word, 0, orpIndex),
         orp |-> IF orpIndex < Len(word) THEN <<word[orpIndex + 1]>> ELSE <<>>,
         after |-> Substring(word, orpIndex + 1, Len(word)),
         orpIndex |-> orpIndex,
         wordLength |-> Len(word)]

(* ------------------------------ events -------------------------------- *)

WordEvent(ws, idx, size) ==
    LET displayWord == DisplayWord(ws, idx, size)
        s == splitAtORP(displayWord)
    IN  [type |-> "word", word |-> displayWord, index |-> idx,
         before |-> s.before, orp |-> s.orp, after |-> s.after,
         orpIndex |-> s.orpIndex, wordLength |-> s.wordLength]

\* minutes is the fraction wordsRemaining / rate; the text is kept as its form
\* and the numbers printed in it
\* _formatTime that rounds the minutes down
_formatTimeFloor(wordsRemaining, rate) ==
    IF wordsRemaining < rate THEN [form |-> "< 1 min"]
    ELSE IF wordsRemaining < 60 * rate
    THEN [form |-> "N min", n |-> wordsRemaining \div rate]
    ELSE [form |-> "Hh Mm",
          h |-> wordsRemaining \div (60 * rate),
          m |-> (wordsRemaining % (60 * rate)) \div rate]

_formatTime(wordsRemaining, rate) ==
    IF wordsRemaining < rate THEN [form |-> "< 1 min"]
    ELSE IF wordsRemaining < 60 * rate
    THEN [form |-> "N min", n |-> (wordsRemaining + rate - 1) \div rate]
    ELSE [form |-> "Hh Mm",
          h |-> wordsRemaining \div (60 * rate),
          m |-> ((wordsRemaining % (60 * rate)) + rate - 1) \div rate]

\* percent is the fraction num/den
_progressData(ws, idx, rate) ==
    LET total == Len(ws)
        current == idx
    IN  [current |-> current,
         total |-> total,
         percent |-> IF total > 0 /\ current <= total
                     THEN [num |-> current * 100, den |-> total]
                     ELSE IF total > 0 THEN [num |-> 100, den |-> 1]
                     ELSE [num |-> 0, den |-> 1],
         wordsRemaining |-> Max(0, total - current),
         timeRemaining |-> _formatTime(Max(0, total - current), rate)]

ProgressEvent(ws, idx, rate) == [type |-> "progress", data |-> _progressData(ws, idx, rate)]

\* _emitCurrentWord without the check of the position against the length
_emitCurrentWordAlways(ws, idx, size) == <<WordEvent(ws, idx, size)>>

\* the events _emitCurrentWord emits
_emitCurrentWord(ws, idx, size) ==
    IF idx < Len(ws) THEN <<WordEvent(ws, idx, size)>> ELSE <<>>

\* what rewind, skip and jumpTo emit once the position is idx
NavEvents(ws, idx, size, rate) ==
    _emitCurrentWord(ws, idx, size) \o <<ProgressEvent(ws, idx, rate)>>

(* --------------------------- event system ----------------------------- *)

\* this._listeners[event], or no callbacks when the channel has no array
ListenersOf(ls, event) == IF event \in DOMAIN ls THEN ls[event] ELSE <<>>

\* _emit that calls the callbacks last registered first
_emitReversed(ev, ls) ==
    LET cbs == ListenersOf(ls, ev.type)
    IN  [k \in 1..Len(cbs) |-> [cb |-> cbs[Len(cbs) + 1 - k], event |-> ev]]

\* _emit: the calls made for one event, forEach over the channel's array
_emit(ev, ls) ==
    LET cbs == ListenersOf(ls, ev.type)
    IN  [k \in 1..Len(cbs) |-> [cb |-> cbs[k], event |-> ev]]

RECURSIVE Deliver(_, _)
\* the calls made for the events of one turn, each _emit run to its end
\* before the next statement
Deliver(evs, ls) ==
    IF Len(evs) = 0 THEN <<>>
    ELSE _emit(Head(evs), ls) \o Deliver(Tail(evs), ls)

RECURSIVE filter(_, _)

\* filter that drops the first occurrence only
filterFirst(cbs, callback) ==
    LET hits == {k \in 1..Len(cbs) : cbs[k] = callback}
        first == CHOOSE k \in hits : \A j \in hits : k <= j
    IN  IF hits = {} THEN cbs
        ELSE SubSeq(cbs, 1, first - 1) \o SubSeq(cbs, first + 1, Len(cbs))

\* this._listeners[event].filter(cb => cb !== callback)
filter(cbs, callback) ==
    IF Len(cbs) = 0 THEN <<>>
    ELSE (IF Head(cbs) # callback THEN <<Head(cbs)>> ELSE <<>>)
             \o filter(Tail(cbs), callback)

(* ------------------------------- delay -------------------------------- *)

Newline == "\n"
Pilcrow == "pilcrow"

\* the modifier terms of _calculateDelay, in tenths
LengthTenths(word) ==
    LET cleanLen == CleanLen(word, Letters \cup Digits)
    IN  IF cleanLen <= 3 THEN 8 ELSE IF cleanLen >= 8 THEN 12 ELSE 10

PunctTenths(word) ==
    IF Len(word) = 0 THEN 0
    ELSE IF word[Len(word)] \in {".", "!", "?"} THEN 10
    ELSE IF word[Len(word)] \in {",", ";", ":"} THEN 6
    ELSE IF word[Len(word)] \in {"\"", "'", ")"} THEN 3
    ELSE 0

ParagraphTenths(word) ==
    IF \E i \in 1..Len(word) : word[i] \in {Newline, Pilcrow} THEN 15 ELSE 0

\* <<rate, length, punctuation, paragraph>> for which the product computed in
\* doubles falls just below a half that the exact product reaches, so that
\* Math.round gives one less than rounding the exact product
HalfLost ==
    { <<64, 12, 6, 0>>, <<160, 8, 0, 15>>, <<224, 10, 10, 15>>, <<320, 12, 6, 0>>,
      <<448, 8, 6, 0>>, <<736, 8, 0, 15>>, <<896, 10, 3, 15>>, <<960, 12, 6, 0>>,
      <<1440, 8, 10, 15>>, <<1440, 12, 6, 15>> }

\* Math.round((60000 / rate) * modifier), for 50 <= rate <= 1500
_calculateDelay(word, rate) ==
    LET l == LengthTenths(word)
        p == PunctTenths(word)
        q == ParagraphTenths(word)
        exact == (2 * 6000 * (l + p + q) + rate) \div (2 * rate)
    IN  IF <<rate, l, p, q>> \in HalfLost THEN exact - 1 ELSE exact

(* ------------------------------ timers -------------------------------- *)

\* setTimeout hands out an id no armed timer has.  The id of a timer that
\* fired or was cleared is handed out again: _tick stores every id it gets in
\* timerId, so a stale timerId never names a timer armed later.  The delay of
\* a timer is known in the turn that arms it (scheduled) and is not kept after
\* it: time is not modelled, and any armed timer may be the next to fire.
FreshTimer(pend) == CHOOSE id \in TimerIds : id \notin pend /\ \A j \in TimerIds : (j \notin pend => id <= j)

\* _clearTimer that forgets the clearTimeout call
_clearTimerLost(tid, pend) == pend

\* _clearTimer: the timers left armed
_clearTimer(tid, pend) == IF tid # null THEN pend \ {tid} ELSE pend

(* ------------------------------- _tick -------------------------------- *)

\* _tick that reports the end without leaving the playing status
_tickStaysPlaying(pre, idx, playing, tid, pend) ==
    IF ~playing \/ idx >= Len(words')
    THEN /\ isPlaying' = playing
         /\ emitted' = (IF idx >= Len(words') THEN pre \o <<[type |-> "end"]>> ELSE pre)
         /\ currentIndex' = idx
         /\ timerId' = tid
         /\ pending' = pend
         /\ scheduled' = <<>>
    ELSE /\ isPlaying' = playing
         /\ emitted' = pre \o <<WordEvent(words', idx, chunkSize'), ProgressEvent(words', idx, wpm')>>
         /\ currentIndex' = idx + chunkSize'
         /\ timerId' = FreshTimer(pend)
         /\ pending' = pend \cup {FreshTimer(pend)}
         /\ scheduled' = <<[id |-> FreshTimer(pend),
                            delay |-> _calculateDelay(DisplayWord(words', idx, chunkSize'),
                                                      wpm')]>>

\* _tick that computes the delay before the rate is read, at the default rate
_tickDefaultRate(pre, idx, playing, tid, pend) ==
    IF ~playing \/ idx >= Len(words')
    THEN /\ isPlaying' = (IF idx >= Len(words') THEN FALSE ELSE playing)
         /\ emitted' = (IF idx >= Len(words') THEN pre \o <<[type |-> "end"]>> ELSE pre)
         /\ currentIndex' = idx
         /\ timerId' = tid
         /\ pending' = pend
         /\ scheduled' = <<>>
    ELSE /\ isPlaying' = playing
         /\ emitted' = pre \o <<WordEvent(words', idx, chunkSize'), ProgressEvent(words', idx, wpm')>>
         /\ currentIndex' = idx + chunkSize'
         /\ timerId' = FreshTimer(pend)
         /\ pending' = pend \cup {FreshTimer(pend)}
         /\ scheduled' = <<[id |-> FreshTimer(pend),
                            delay |-> _calculateDelay(DisplayWord(words', idx, chunkSize'),
                                                      300)]>>

\* _tick that keeps counting past the end instead of stopping there
_tickRunsOn(pre, idx, playing, tid, pend) ==
    IF ~playing
    THEN /\ isPlaying' = playing
         /\ emitted' = pre
         /\ currentIndex' = idx
         /\ timerId' = tid
         /\ pending' = pend
         /\ scheduled' = <<>>
    ELSE /\ isPlaying' = playing
         /\ emitted' = pre \o <<WordEvent(words', idx, chunkSize'), ProgressEvent(words', idx, wpm')>>
         /\ currentIndex' = idx + chunkSize'
         /\ timerId' = FreshTimer(pend)
         /\ pending' = pend \cup {FreshTimer(pend)}
         /\ scheduled' = <<[id |-> FreshTimer(pend),
                            delay |-> _calculateDelay(DisplayWord(words', idx, chunkSize'),
                                                      wpm')]>>

\* _tick that moves one word on whatever the chunk size
_tickByOne(pre, idx, playing, tid, pend) ==
    IF ~playing \/ idx >= Len(words')
    THEN /\ isPlaying' = (IF idx >= Len(words') THEN FALSE ELSE playing)
         /\ emitted' = (IF idx >= Len(words') THEN pre \o <<[type |-> "end"]>> ELSE pre)
         /\ currentIndex' = idx
         /\ timerId' = tid
         /\ pending' = pend
         /\ scheduled' = <<>>
    ELSE /\ isPlaying' = playing
         /\ emitted' = pre \o <<WordEvent(words', idx, chunkSize'), ProgressEvent(words', idx, wpm')>>
         /\ currentIndex' = idx + 1
         /\ timerId' = FreshTimer(pend)
         /\ pending' = pend \cup {FreshTimer(pend)}
         /\ scheduled' = <<[id |-> FreshTimer(pend),
                            delay |-> _calculateDelay(DisplayWord(words', idx, chunkSize'),
                                                      wpm')]>>

\* _tick run with the events pre already emitted this turn, from position
\* idx, status playing and armed timers pend
_tick(pre, idx, playing, tid, pend) ==
    IF ~playing \/ idx >= Len(words')
    THEN /\ isPlaying' = (IF idx >= Len(words') THEN FALSE ELSE playing)
         /\ emitted' = (IF idx >= Len(words') THEN pre \o <<[type |-> "end"]>> ELSE pre)
         /\ currentIndex' = idx
         /\ timerId' = tid
         /\ pending' = pend
         /\ scheduled' = <<>>
    ELSE /\ isPlaying' = playing
         /\ emitted' = pre \o <<WordEvent(words', idx, chunkSize'), ProgressEvent(words', idx, wpm')>>
         /\ currentIndex' = idx + chunkSize'
         /\ timerId' = FreshTimer(pend)
         /\ pending' = pend \cup {FreshTimer(pend)}
         /\ scheduled' = <<[id |-> FreshTimer(pend),
                            delay |-> _calculateDelay(DisplayWord(words', idx, chunkSize'),
                                                      wpm')]>>

(* ------------------------------ actions ------------------------------- *)

\* the record of the turn being taken
Called(op, args) ==
    /\ lastOp' = op
    /\ lastArg' = args
    /\ returned' = undefined
    /\ wasAtEnd' = (currentIndex >= Len(words))

\* the callbacks run while the turn emits; no engine call changes _listeners
Notify ==
    /\ invoked' = Deliver(emitted', _listeners)
    /\ UNCHANGED <<_listeners, handles>>

\* how a call that is not play() moves the play()-then-pause() marker
RaceNext(isPause) ==
    /\ race' = (IF race = "paused" \/ (isPause /\ race = "armed") THEN "paused" ELSE "none")
    /\ raceTimer' = (IF race = "paused" \/ (isPause /\ race = "armed") THEN raceTimer ELSE null)

Init ==
    /\ words = <<>>
    /\ currentIndex = 0
    /\ isPlaying = FALSE
    /\ isPaused = FALSE
    /\ timerId = null
    /\ wpm = 300
    /\ chunkSize = 1
    /\ pending = {}
    /\ emitted = <<>>
    /\ scheduled = <<>>
    /\ _listeners = [event \in {} |-> <<>>]
    /\ invoked = <<>>
    /\ handles = {}
    /\ lastOp = "new"
    /\ lastArg = <<>>
    /\ returned = undefined
    /\ wasAtEnd = TRUE
    /\ halted = FALSE
    /\ race = "none"
    /\ raceTimer = null

LoadIndex(startIndex, len) == Min(startIndex, len - 1)

load ==
    \E ws \in Docs, startIndex \in StartIndexes :
        /\ words' = ws
        /\ currentIndex' = LoadIndex(startIndex, Len(ws))
        /\ isPlaying' = FALSE
        /\ isPaused' = FALSE
        /\ timerId' = null
        /\ pending' = _clearTimer(timerId, pending)
        /\ scheduled' = <<>>
        /\ emitted' = <<[type |-> "load", totalWords |-> Len(ws),
                         currentIndex |-> LoadIndex(startIndex, Len(ws))]>>
        /\ Called("load", <<startIndex>>)
        /\ Notify
        /\ halted' = TRUE
        /\ RaceNext(FALSE)
        /\ UNCHANGED <<wpm, chunkSize>>

\* play() that does not restart a finished sequence
PlayStartKeeps(idx, len) == idx

\* the position play() starts from
PlayStart(idx, len) == IF idx >= len THEN 0 ELSE idx

\* play() without the check for an empty sequence
PlayRunsAlways(len) == TRUE

\* play() returns at once on an empty sequence
PlayRuns(len) == len # 0

\* the body of play(), called as op
PlayCall(op) ==
    /\ Called(op, <<>>)
    /\ halted' = FALSE
    /\ UNCHANGED <<words, wpm, chunkSize>>
    /\ IF ~PlayRuns(Len(words))
       THEN /\ UNCHANGED <<currentIndex, isPlaying, isPaused, timerId, pending>>
            /\ scheduled' = <<>>
            /\ emitted' = <<>>
            /\ race' = "none"
            /\ raceTimer' = null
       ELSE /\ Cardinality(pending) < MaxPending
            /\ isPaused' = FALSE
            /\ _tick(<<[type |-> "play"]>>, PlayStart(currentIndex, Len(words)), TRUE,
                    timerId, pending)
            /\ race' = (IF isPlaying THEN "none" ELSE "armed")
            /\ raceTimer' = (IF isPlaying THEN null ELSE timerId')
    /\ Notify

play == PlayCall("play")

\* pause() that reports the index of the chunk on display
PauseCallReportsShown(op) ==
    /\ isPlaying' = FALSE
    /\ isPaused' = TRUE
    /\ timerId' = null
    /\ pending' = _clearTimer(timerId, pending)
    /\ scheduled' = <<>>
    /\ emitted' = <<[type |-> "pause", wordIndex |-> currentIndex - chunkSize]>>
    /\ Called(op, <<>>)
    /\ Notify
    /\ halted' = TRUE
    /\ RaceNext(TRUE)
    /\ UNCHANGED <<words, currentIndex, wpm, chunkSize>>

\* pause() that leaves the playing flag
PauseCallKeepsPlaying(op) ==
    /\ isPlaying' = isPlaying
    /\ isPaused' = TRUE
    /\ timerId' = null
    /\ pending' = _clearTimer(timerId, pending)
    /\ scheduled' = <<>>
    /\ emitted' = <<[type |-> "pause", wordIndex |-> currentIndex]>>
    /\ Called(op, <<>>)
    /\ Notify
    /\ halted' = TRUE
    /\ RaceNext(TRUE)
    /\ UNCHANGED <<words, currentIndex, wpm, chunkSize>>

\* the body of pause(), called as op
PauseCall(op) ==
    /\ isPlaying' = FALSE
    /\ isPaused' = TRUE
    /\ timerId' = null
    /\ pending' = _clearTimer(timerId, pending)
    /\ scheduled' = <<>>
    /\ emitted' = <<[type |-> "pause", wordIndex |-> currentIndex]>>
    /\ Called(op, <<>>)
    /\ Notify
    /\ halted' = TRUE
    /\ RaceNext(TRUE)
    /\ UNCHANGED <<words, currentIndex, wpm, chunkSize>>

pause == PauseCall("pause")

\* togglePlay with the test of the status inverted
togglePlayInverted ==
    IF isPlaying THEN PlayCall("togglePlay") ELSE PauseCall("togglePlay")

togglePlay ==
    IF isPlaying THEN PauseCall("togglePlay") ELSE PlayCall("togglePlay")

stop ==
    /\ isPlaying' = FALSE
    /\ isPaused' = FALSE
    /\ timerId' = null
    /\ pending' = _clearTimer(timerId, pending)
    /\ scheduled' = <<>>
    /\ emitted' = <<[type |-> "stop"]>>
    /\ Called("stop", <<>>)
    /\ Notify
    /\ halted' = TRUE
    /\ RaceNext(FALSE)
    /\ UNCHANGED <<words, currentIndex, wpm, chunkSize>>

\* /[.!?]$/.test(word), for a word that is not empty
EndsSentence(word) == Len(word) > 0 /\ word[Len(word)] \in {".", "!", "?"}

\* _findSentenceStart that returns the index of the word found
_findSentenceStartAtWord(ws, index) ==
    LET hits == {i \in 0..(index - 1) : EndsSentence(WordAt(ws, i))}
    IN  IF hits = {} THEN 0
        ELSE CHOOSE i \in hits : \A j \in hits : j <= i

_findSentenceStart(ws, index) ==
    LET hits == {i \in 0..(index - 1) : EndsSentence(WordAt(ws, i))}
    IN  IF hits = {} THEN 0
        ELSE (CHOOSE i \in hits : \A j \in hits : j <= i) + 1

\* _findSentenceEnd that looks from the word after index
_findSentenceEndAfter(ws, index) ==
    LET hits == {i \in (index + 1)..(Len(ws) - 1) : EndsSentence(WordAt(ws, i))}
    IN  IF hits = {} THEN Len(ws) - 1
        ELSE Min((CHOOSE i \in hits : \A j \in hits : i <= j) + 1, Len(ws) - 1)

_findSentenceEnd(ws, index) ==
    LET hits == {i \in index..(Len(ws) - 1) : EndsSentence(WordAt(ws, i))}
    IN  IF hits = {} THEN Len(ws) - 1
        ELSE Min((CHOOSE i \in hits : \A j \in hits : i <= j) + 1, Len(ws) - 1)

\* given: the call passes a count (count !== undefined)
RewindIndex(ws, idx, given, count) ==
    IF given THEN Max(0, idx - count) ELSE _findSentenceStart(ws, idx)

SkipIndex(ws, idx, given, count) ==
    IF given THEN Min(Len(ws) - 1, idx + count) ELSE _findSentenceEnd(ws, idx)

\* jumpTo without the floor at 0
JumpIndexNoFloor(ws, index) == Min(index, Len(ws) - 1)

JumpIndex(ws, index) == Max(0, Min(index, Len(ws) - 1))

\* rewind, skip and jumpTo once the new position is computed
Navigate(op, args, idx) ==
    /\ idx \in Positions
    /\ currentIndex' = idx
    /\ scheduled' = <<>>
    /\ emitted' = NavEvents(words, idx, chunkSize, wpm)
    /\ Called(op, args)
    /\ Notify
    /\ RaceNext(FALSE)
    /\ UNCHANGED <<words, isPlaying, isPaused, timerId, wpm, chunkSize, pending, halted>>

rewind ==
    \/ \E count \in Counts : Navigate("rewind", <<count>>, RewindIndex(words, currentIndex, TRUE, count))
    \/ Navigate("rewind", <<>>, RewindIndex(words, currentIndex, FALSE, 0))

skip ==
    \/ \E count \in Counts : Navigate("skip", <<count>>, SkipIndex(words, currentIndex, TRUE, count))
    \/ Navigate("skip", <<>>, SkipIndex(words, currentIndex, FALSE, 0))

jumpTo == \E index \in StartIndexes : Navigate("jumpTo", <<index>>, JumpIndex(words, index))

\* setSpeed without the floor at 50
ClampSpeedNoFloor(rate) == Min(1500, rate)

ClampSpeed(rate) == Max(50, Min(1500, rate))

\* setSpeed that cancels the pending step
setSpeedCancels ==
    \E rate \in Rates :
        /\ wpm' = ClampSpeed(rate)
        /\ timerId' = null
        /\ pending' = _clearTimer(timerId, pending)
        /\ scheduled' = <<>>
        /\ emitted' = <<[type |-> "speedChange", wpm |-> ClampSpeed(rate)]>>
        /\ Called("setSpeed", <<rate>>)
        /\ Notify
        /\ RaceNext(FALSE)
        /\ UNCHANGED <<words, currentIndex, isPlaying, isPaused, chunkSize, halted>>

setSpeed ==
    \E rate \in Rates :
        /\ wpm' = ClampSpeed(rate)
        /\ scheduled' = <<>>
        /\ emitted' = <<[type |-> "speedChange", wpm |-> ClampSpeed(rate)]>>
        /\ Called("setSpeed", <<rate>>)
        /\ Notify
        /\ RaceNext(FALSE)
        /\ UNCHANGED <<words, currentIndex, isPlaying, isPaused, timerId, chunkSize,
                       pending, halted>>

\* setChunkSize without the floor at 1
ClampChunkNoFloor(size) == Min(3, size)

ClampChunk(size) == Max(1, Min(3, size))

setChunkSize ==
    \E size \in Sizes :
        /\ chunkSize' = ClampChunk(size)
        /\ scheduled' = <<>>
        /\ emitted' = <<>>
        /\ Called("setChunkSize", <<size>>)
        /\ Notify
        /\ RaceNext(FALSE)
        /\ UNCHANGED <<words, currentIndex, isPlaying, isPaused, timerId, wpm,
                       pending, halted>>

\* an armed timer fires: its callback runs _tick
Fire ==
    \E id \in pending :
        /\ UNCHANGED <<words, isPaused, wpm, chunkSize, halted>>
        /\ _tick(<<>>, currentIndex, isPlaying, timerId, pending \ {id})
        /\ Called("fire", <<>>)
        /\ Notify
        /\ RaceNext(FALSE)

Next ==
    \/ load
    \/ play
    \/ pause
    \/ togglePlay
    \/ stop
    \/ rewind
    \/ skip
    \/ jumpTo
    \/ setSpeed
    \/ setChunkSize
    \/ Fire

Spec == Init /\ [][Next]_vars

(* ------------------------ on, off, unsubscribe ------------------------ *)

\* a call of the event system: it emits nothing and leaves the engine alone
Registry(op, event, callback) ==
    /\ lastOp' = op
    /\ lastArg' = <<event, callback>>
    /\ returned' = (IF op = "on" THEN [unsubscribe |-> <<event, callback>>] ELSE undefined)
    /\ wasAtEnd' = (currentIndex >= Len(words))
    /\ emitted' = <<>>
    /\ invoked' = <<>>
    /\ scheduled' = <<>>
    /\ RaceNext(FALSE)
    /\ UNCHANGED <<words, currentIndex, isPlaying, isPaused, timerId, wpm, chunkSize,
                   pending, halted>>

on ==
    \E event \in Channels, callback \in Callbacks :
        /\ Len(ListenersOf(_listeners, event)) < MaxListeners
        /\ _listeners' = [e \in DOMAIN _listeners \cup {event} |->
                            IF e = event
                            THEN Append(ListenersOf(_listeners, event), callback)
                            ELSE _listeners[e]]
        /\ handles' = handles \cup {<<event, callback>>}
        /\ Registry("on", event, callback)

\* the body of off(event, callback), called as op
OffCall(op, event, callback) ==
    /\ _listeners' = [e \in DOMAIN _listeners |->
                        IF e = event THEN filter(_listeners[e], callback)
                        ELSE _listeners[e]]
    /\ UNCHANGED handles
    /\ Registry(op, event, callback)

off == \E event \in Channels, callback \in Callbacks : OffCall("off", event, callback)

\* a closure returned by on() is called: () => this.off(event, callback)
unsubscribe == \E h \in handles : OffCall("unsubscribe", h[1], h[2])

NextEvents ==
    \/ on
    \/ off
    \/ unsubscribe
    \/ pause
    \/ stop
    \/ setSpeed

SpecEvents == Init /\ [][NextEvents]_vars

(* ---------------------------- getProgress ---------------------------- *)

\* getProgress that reports the position as read
getProgressStored ==
    /\ lastOp' = "getProgress"
    /\ lastArg' = <<>>
    /\ returned' = _progressData(words, currentIndex, wpm)
    /\ wasAtEnd' = (currentIndex >= Len(words))
    /\ currentIndex' = Max(0, currentIndex)
    /\ emitted' = <<>>
    /\ scheduled' = <<>>
    /\ RaceNext(FALSE)
    /\ Notify
    /\ UNCHANGED <<words, isPlaying, isPaused, timerId, wpm, chunkSize, pending, halted>>

getProgress ==
    /\ lastOp' = "getProgress"
    /\ lastArg' = <<>>
    /\ returned' = _progressData(words, currentIndex, wpm)
    /\ wasAtEnd' = (currentIndex >= Len(words))
    /\ emitted' = <<>>
    /\ scheduled' = <<>>
    /\ RaceNext(FALSE)
    /\ Notify
    /\ UNCHANGED <<words, currentIndex, isPlaying, isPaused, timerId, wpm, chunkSize,
                   pending, halted>>

NextProgress ==
    \/ load
    \/ play
    \/ rewind
    \/ skip
    \/ jumpTo
    \/ setSpeed
    \/ Fire
    \/ getProgress

SpecProgress == Init /\ [][NextProgress]_vars

(* ----------------------------- playback ------------------------------ *)

NextPlayback ==
    \/ load
    \/ play
    \/ pause
    \/ setSpeed
    \/ setChunkSize
    \/ Fire

SpecPlayback == Init /\ [][NextPlayback]_vars

(* ------------------------- functions applied ------------------------- *)

\* words and chunks the functions are applied to
Samples ==
    { <<>>,
      <<"i","t">>,
      <<"i","t",",">>,
      <<"t","h","e">>,
      <<"w","o","r","d">>,
      <<"c","a","t",".">>,
      <<"(","a",")">>,
      <<"d","o","n","'","t">>,
      <<"2","0","2","4">>,
      <<"c","a","f","e-acute">>,
      <<"s","a","i","d","\"">>,
      <<"e","l","e","p","h","a","n","t">>,
      <<"e","l","e","p","h","a","n","t",",">>,
      <<"e","n","d",".",Pilcrow>>,
      <<Newline,"N","e","w",".">>,
      <<"A"," ","q","u","i","c","k",".">> }

\* rates _calculateDelay is applied at, and rates and word counts of _formatTime
DelayRates == {50, 64, 300, 320, 1500}
FormatRates == {50, 300, 1500}
WordsLeft == {0, 49, 50, 51, 299, 300, 2999, 3000, 3001, 17999, 18000, 18001,
              35850, 89999, 90000}

\* the sequences the sentence search is applied to, and the indexes
Passages == { SubSeq(Text, 1, n) : n \in 0..Len(Text) }
SearchIndexes == (0 - 1)..(Len(Text) + 1)

\* a function is called: the engine is left as it is
Applied(op, args, value) ==
    /\ lastOp' = op
    /\ lastArg' = args
    /\ returned' = value
    /\ UNCHANGED <<words, currentIndex, isPlaying, isPaused, timerId, wpm, chunkSize,
                   pending, emitted, scheduled, _listeners, invoked, handles,
                   wasAtEnd, halted, race, raceTimer>>

ApplyORP == \E word \in Samples : Applied("calculateORP", <<word>>, calculateORP(word))

\* the value is kept as the sequence of the fields before, orp, after,
\* orpIndex and wordLength of the object
ApplySplit ==
    \E word \in Samples :
        LET s == splitAtORP(word)
        IN  Applied("splitAtORP", <<word>>,
                    <<s.before, s.orp, s.after, s.orpIndex, s.wordLength>>)

ApplyDelay ==
    \E word \in Samples, rate \in DelayRates :
        Applied("_calculateDelay", <<word, rate>>, _calculateDelay(word, rate))

ApplyFormat ==
    \E wordsRemaining \in WordsLeft, rate \in FormatRates :
        LET t == _formatTime(wordsRemaining, rate)
        IN  Applied("_formatTime", <<wordsRemaining, rate>>,
                    IF t.form = "< 1 min" THEN <<t.form>>
                    ELSE IF t.form = "N min" THEN <<t.form, t.n>>
                    ELSE <<t.form, t.h, t.m>>)

\* the position rewind() and skip() without a count compute
ApplyRewind ==
    \E ws \in Passages, index \in SearchIndexes :
        Applied("_findSentenceStart", <<ws, index>>, RewindIndex(ws, index, FALSE, 0))

ApplySkip ==
    \E ws \in Passages, index \in SearchIndexes :
        Applied("_findSentenceEnd", <<ws, index>>, SkipIndex(ws, index, FALSE, 0))

NextStatic ==
    \/ ApplyORP
    \/ ApplySplit
    \/ ApplyDelay
    \/ ApplyFormat
    \/ ApplyRewind
    \/ ApplySkip

SpecStatic == Init /\ [][NextStatic]_vars

(* -------------------- callbacks that call the engine ------------------ *)

\* the channels _tick emits on before it advances, and the calls a callback
\* registered there makes
StepChannels == {"word", "progress"}
Reentrant == {"pause", "stop"}

\* on() for a callback that may call the engine
onStep ==
    \E event \in StepChannels :
        /\ Len(ListenersOf(_listeners, event)) < MaxListeners
        /\ _listeners' = [e \in DOMAIN _listeners \cup {event} |->
                            IF e = event
                            THEN Append(ListenersOf(_listeners, event), "cb1")
                            ELSE _listeners[e]]
        /\ handles' = handles \cup {<<event, "cb1">>}
        /\ Registry("on", event, "cb1")

\* what pause() and stop() emit
HaltEvent(call, idx) ==
    IF call = "pause" THEN [type |-> "pause", wordIndex |-> idx] ELSE [type |-> "stop"]

\* an armed timer fires while playing before the end, and a callback of the
\* channel at calls pause() or stop(): the call runs to its end inside
\* _emit, and _tick goes on with the statements after that _emit
FireCalling ==
    \E id \in pending, at \in StepChannels, call \in Reentrant :
        /\ isPlaying /\ currentIndex < Len(words)
        /\ Len(ListenersOf(_listeners, at)) > 0
        /\ LET word == WordEvent(words, currentIndex, chunkSize)
               progress == ProgressEvent(words, currentIndex, wpm)
               halt == HaltEvent(call, currentIndex)
               left == _clearTimer(timerId, pending \ {id})
           IN  /\ emitted' = (IF at = "word" THEN <<word, halt, progress>>
                              ELSE <<word, progress, halt>>)
               /\ isPlaying' = FALSE
               /\ isPaused' = (call = "pause")
               /\ currentIndex' = currentIndex + chunkSize
               /\ timerId' = FreshTimer(left)
               /\ pending' = left \cup {FreshTimer(left)}
               /\ scheduled' = <<[id |-> FreshTimer(left),
                                  delay |-> _calculateDelay(word.word, wpm)]>>
        /\ lastOp' = "fire"
        /\ lastArg' = <<at, call>>
        /\ returned' = undefined
        /\ wasAtEnd' = FALSE
        /\ Notify
        /\ halted' = TRUE
        /\ RaceNext(FALSE)
        /\ UNCHANGED <<words, wpm, chunkSize>>

NextReentrant ==
    \/ load
    \/ play
    \/ onStep
    \/ Fire
    \/ FireCalling

SpecReentrant == Init /\ [][NextReentrant]_vars

(* ---------------------------- playthrough ----------------------------- *)

\* no run is under way: the status is not playing and no timer is armed
Idle == ~isPlaying /\ pending = {}

\* a sequence is loaded and configured, play() is called once, and nothing
\* but the armed timer acts until the run is over
NextPlaythrough ==
    \/ Idle /\ load
    \/ Idle /\ setChunkSize
    \/ Idle /\ setSpeed
    \/ Idle /\ play
    \/ Fire

\* a timer armed by setTimeout fires after its delay
SpecPlaythrough == Init /\ [][NextPlaythrough]_vars /\ WF_vars(Fire)

(* ------------------------------ claims -------------------------------- *)

Clamp(x, lo, hi) == Max(lo, Min(x, hi))

EventTypes(evs) == [k \in 1..Len(evs) |-> evs[k].type]

\* C1: after any sequence of operations and fired steps the position lies in
\* 0..words.length.
C1_PositionInRange == 0 <= currentIndex /\ currentIndex <= Len(words)

\* C2: at most one scheduled autoplay step is outstanding at any moment.
C2_AtMostOneStep == Cardinality(pending) <= 1

\* C3: after pause(), stop() or load() and until the next play() no scheduled
\* step is left to fire, so no timer callback runs _tick.
C3_NoStepAfterHalt == halted => pending = {}

\* C4: when pause() follows play() from a non-playing state in the same turn,
\* the timer that play() armed is cancelled, and until play() is called again
\* no timer that fires emits a word or progress event or moves the position.
C4_PlayPauseCancels ==
    /\ [](race = "paused" => raceTimer \notin pending)
    /\ [][(race = "paused" /\ lastOp' = "fire") =>
            /\ currentIndex' = currentIndex
            /\ \A k \in 1..Len(emitted') : emitted'[k].type \notin {"word", "progress"}]_vars

C4_Witness == race = "paused" /\ lastOp = "pause" /\ raceTimer # null

\* C5: between turns, whenever the status is playing a scheduled step is
\* pending.
C5_PlayingHasStep == isPlaying => pending # {}

C5_Witness == isPlaying /\ lastOp = "fire" /\ pending # {}

\* C6: after load() returns the status is neither playing nor paused and no
\* scheduled step is pending.
C6_LoadResets == lastOp = "load" => (~isPlaying /\ ~isPaused /\ pending = {})

\* C7: load(words, startIndex) sets the position to startIndex clamped into
\* 0..length-1, or 0 when words is empty, and emits one load event carrying
\* the word count and that position.
C7_LoadClamps ==
    lastOp = "load" =>
        LET resolved == IF Len(words) = 0 THEN 0
                        ELSE Clamp(lastArg[1], 0, Len(words) - 1)
        IN  /\ currentIndex = resolved
            /\ emitted = <<[type |-> "load", totalWords |-> Len(words),
                            currentIndex |-> resolved]>>

\* C8: play() on an empty word sequence changes no field of the engine, arms
\* no timer and emits no event.
C8_PlayEmptyNoOp ==
    [][(lastOp' = "play" /\ Len(words) = 0) =>
            /\ UNCHANGED <<words, currentIndex, isPlaying, isPaused, timerId, wpm,
                           chunkSize, pending>>
            /\ scheduled' = <<>>
            /\ emitted' = <<>>]_vars

C8_Witness == lastOp = "play" /\ Len(words) = 0 /\ emitted = <<>>

\* C9: play() called with the position at or past the end of a non-empty
\* sequence sets the status playing, emits play first, and the word event
\* that follows carries index 0: playback restarts from position 0, so the
\* position is chunkSize when play() returns.
C9_PlayRestarts ==
    (lastOp = "play" /\ wasAtEnd /\ Len(words) > 0) =>
        /\ isPlaying /\ ~isPaused
        /\ Len(emitted) >= 2
        /\ emitted[1] = [type |-> "play"]
        /\ emitted[2].type = "word" /\ emitted[2].index = 0
        /\ currentIndex = chunkSize

C9_Witness == lastOp = "play" /\ wasAtEnd /\ Len(words) > 0 /\ lastArg = <<>>

\* C10: a second pause() right after a pause() leaves the position, the
\* status (paused) and the pending steps (none) as the first left them, and
\* every pause() leaves no step pending and emits one pause event whose
\* wordIndex is the position.
C10_PauseIdempotent ==
    /\ [](lastOp = "pause" =>
            /\ ~isPlaying /\ isPaused /\ pending = {}
            /\ emitted = <<[type |-> "pause", wordIndex |-> currentIndex]>>)
    /\ [][(lastOp = "pause" /\ lastOp' = "pause") =>
            UNCHANGED <<words, currentIndex, isPlaying, isPaused, timerId, wpm,
                        chunkSize, pending>>]_vars

\* C11: stop() cancels any pending scheduled step, leaves the status neither
\* playing nor paused, leaves the position and the word sequence unchanged,
\* and emits exactly one stop event.
C11_StopResets ==
    /\ [](lastOp = "stop" =>
            /\ ~isPlaying /\ ~isPaused /\ pending = {}
            /\ emitted = <<[type |-> "stop"]>>)
    /\ [][lastOp' = "stop" => UNCHANGED <<words, currentIndex>>]_vars

\* C12 as stated: jumpTo(index) sets the position to index when it lies in
\* 0..length-1, to length-1 when index is beyond it and to 0 when index is
\* negative.
C12_JumpClampsAsStated ==
    lastOp = "jumpTo" =>
        currentIndex = (IF lastArg[1] < 0 THEN 0
                        ELSE IF lastArg[1] > Len(words) - 1 THEN Len(words) - 1
                        ELSE lastArg[1])

\* C12: on a sequence that is not empty jumpTo(index) sets the position to
\* index when it lies in 0..length-1, to length-1 when index is beyond it
\* and to 0 when index is negative; on an empty sequence it sets the
\* position to 0 for every index.
C12_JumpClamps ==
    lastOp = "jumpTo" =>
        currentIndex = (IF Len(words) = 0 THEN 0
                        ELSE IF lastArg[1] < 0 THEN 0
                        ELSE IF lastArg[1] > Len(words) - 1 THEN Len(words) - 1
                        ELSE lastArg[1])

C12_Witness ==
    /\ lastOp = "jumpTo" /\ Len(words) > 0
    /\ lastArg[1] > Len(words) - 1 /\ currentIndex = Len(words) - 1

\* C13: on a loaded sequence skip(count) with an explicit count moves the
\* position forward by count with a ceiling at length-1, and the resulting
\* position is a valid index of the sequence.
C13_SkipCountValid ==
    /\ []((lastOp = "skip" /\ lastArg # <<>> /\ Len(words) > 0) =>
            (0 <= currentIndex /\ currentIndex <= Len(words) - 1))
    /\ [][(lastOp' = "skip" /\ lastArg' # <<>> /\ Len(words) > 0) =>
            currentIndex' = Min(Len(words) - 1, currentIndex + lastArg'[1])]_vars

\* C14: rewind(count) with an explicit count moves the position back by
\* count with a floor at 0, and the resulting position is a valid position
\* of the sequence, 0..length.
C14_RewindCountValid ==
    /\ []((lastOp = "rewind" /\ lastArg # <<>>) =>
            (0 <= currentIndex /\ currentIndex <= Len(words)))
    /\ [][(lastOp' = "rewind" /\ lastArg' # <<>>) =>
            currentIndex' = Max(0, currentIndex - lastArg'[1])]_vars

\* C15: the stored rate is clamp(r, 50, 1500) of the last setSpeed(r) and the
\* stored chunk size is clamp(c, 1, 3) of the last setChunkSize(c), so the
\* rate is always in 50..1500 and the chunk size in 1..3; each setSpeed emits
\* one speedChange event carrying the clamped rate.
C15_ConfigClamped ==
    /\ [](/\ 50 <= wpm /\ wpm <= 1500
          /\ 1 <= chunkSize /\ chunkSize <= 3
          /\ lastOp = "setSpeed" =>
                LET r == lastArg[1]
                    clamped == IF r < 50 THEN 50 ELSE IF r > 1500 THEN 1500 ELSE r
                IN  /\ wpm = clamped
                    /\ emitted = <<[type |-> "speedChange", wpm |-> clamped]>>
          /\ lastOp = "setChunkSize" =>
                LET c == lastArg[1]
                IN  chunkSize = (IF c < 1 THEN 1 ELSE IF c > 3 THEN 3 ELSE c))
    /\ [][/\ lastOp' # "setSpeed" => wpm' = wpm
          /\ lastOp' # "setChunkSize" => chunkSize' = chunkSize]_vars

C15_Witness ==
    /\ lastOp = "setChunkSize" /\ lastArg[1] > 3 /\ chunkSize = 3
    /\ wpm = 50

\* C16: setSpeed and setChunkSize neither cancel nor re-arm a pending step
\* and arm none, so the delay the step was armed with stands; the step that
\* fires next shows the chunk of the chunk size then stored, advances by it,
\* and arms its successor with the delay computed from the rate then stored.
C16_ConfigNextStep ==
    /\ [][lastOp' \in {"setSpeed", "setChunkSize"} =>
            /\ UNCHANGED <<pending, timerId>>
            /\ scheduled' = <<>>]_vars
    /\ [][(lastOp' = "fire" /\ isPlaying /\ currentIndex < Len(words)) =>
            /\ Len(emitted') = 2 /\ Len(scheduled') = 1
            /\ emitted'[1] = WordEvent(words, currentIndex, chunkSize)
            /\ currentIndex' = currentIndex + chunkSize
            /\ scheduled'[1].delay =
                    _calculateDelay(DisplayWord(words, currentIndex, chunkSize), wpm)]_vars

C16_Witness ==
    /\ lastOp = "setSpeed" /\ wpm = 50
    /\ isPlaying /\ pending # {} /\ timerId \in pending

C18_ToggleIsPauseOrPlay ==
    [][lastOp' = "togglePlay" =>
            IF isPlaying THEN PauseCall("togglePlay") ELSE PlayCall("togglePlay")]_vars

C18_Witness == lastOp = "togglePlay" /\ isPaused /\ ~isPlaying /\ pending = {}

\* C19: a turn that emits an event calls, before it ends, every callback
\* registered on the channel of the event, in the order of registration,
\* each with the payload of the event, and calls nothing else; a turn that
\* emits nothing calls nothing.
C19_EmitCallsAll ==
    /\ Len(emitted) = 0 => invoked = <<>>
    /\ Len(emitted) = 1 =>
            LET ev == emitted[1]
                cbs == IF ev.type \in DOMAIN _listeners THEN _listeners[ev.type] ELSE <<>>
            IN  /\ Len(invoked) = Len(cbs)
                /\ \A k \in 1..Len(cbs) : invoked[k] = [cb |-> cbs[k], event |-> ev]

C19_Witness ==
    /\ lastOp = "setSpeed" /\ Len(invoked) = 2
    /\ invoked[1].cb = "cb2" /\ invoked[2].cb = "cb1"
    /\ invoked[2].event = [type |-> "speedChange", wpm |-> 1500]

\* C20: on(event, cb) appends cb to the channel and returns a handle; the
\* handle and off(event, cb) both remove every registration of cb from that
\* channel and leave the other callbacks of the channel and every other
\* channel as they were, in order; nothing but on, off and a handle changes
\* the registrations, and a turn calls only callbacks that are registered,
\* so cb is not called on that channel until on registers it again.
C20_Unsubscribe ==
    /\ [][lastOp' \in {"off", "unsubscribe"} =>
            /\ DOMAIN _listeners' = DOMAIN _listeners
            /\ \A e \in DOMAIN _listeners :
                    _listeners'[e] = (IF e = lastArg'[1]
                                      THEN SelectSeq(_listeners[e], LAMBDA cb : cb # lastArg'[2])
                                      ELSE _listeners[e])]_vars
    /\ [][lastOp' = "unsubscribe" => lastArg' \in handles]_vars
    /\ [][lastOp' = "on" =>
            /\ lastArg' \in handles'
            /\ DOMAIN _listeners' = DOMAIN _listeners \cup {lastArg'[1]}
            /\ \A e \in DOMAIN _listeners' :
                    _listeners'[e] = (IF e = lastArg'[1]
                                      THEN Append(IF e \in DOMAIN _listeners
                                                  THEN _listeners[e] ELSE <<>>, lastArg'[2])
                                      ELSE _listeners[e])]_vars
    /\ [][lastOp' \notin {"on", "off", "unsubscribe"} => UNCHANGED _listeners]_vars
    /\ [](\A k \in 1..Len(invoked) :
            /\ invoked[k].event.type \in DOMAIN _listeners
            /\ \E j \in 1..Len(_listeners[invoked[k].event.type]) :
                    _listeners[invoked[k].event.type][j] = invoked[k].cb)

C20_Witness ==
    /\ lastOp = "unsubscribe" /\ lastArg = <<"pause", "cb1">>
    /\ DOMAIN _listeners = {"pause", "speedChange"}
    /\ _listeners["pause"] = <<"cb2">>
    /\ _listeners["speedChange"] = <<"cb2", "cb1">>

\* C21: getProgress() changes no field of the engine, arms and clears no
\* timer, emits no event, and returns current = position, total = length,
\* percent = min(100, 100 * current / total) (0 when total is 0) and
\* wordsRemaining = max(0, total - current).
C21_GetProgressPure ==
    /\ [][lastOp' = "getProgress" =>
            /\ UNCHANGED <<words, currentIndex, isPlaying, isPaused, timerId, wpm,
                           chunkSize, pending, _listeners>>
            /\ emitted' = <<>> /\ scheduled' = <<>> /\ invoked' = <<>>]_vars
    /\ [](lastOp = "getProgress" =>
            LET total == Len(words)
                current == currentIndex
                percent == returned.percent
            IN  /\ returned.current = current
                /\ returned.total = total
                /\ percent.den > 0
                /\ IF total = 0 THEN percent.num = 0
                   ELSE IF 100 * current >= 100 * total
                        THEN percent.num = 100 * percent.den
                        ELSE percent.num * total = 100 * current * percent.den
                /\ returned.wordsRemaining =
                        (IF total - current > 0 THEN total - current ELSE 0))

C21_Witness ==
    /\ lastOp = "getProgress" /\ isPlaying /\ pending # {}
    /\ Len(words) = 2 /\ currentIndex = 1
    /\ returned.percent = [num |-> 100, den |-> 2]

\* C22: whenever the loaded word sequence is empty, getProgress() returns
\* percent = 0, wordsRemaining = 0 and timeRemaining = "< 1 min".
C22_EmptyProgress ==
    (lastOp = "getProgress" /\ Len(words) = 0) =>
        /\ returned.percent.num = 0
        /\ returned.wordsRemaining = 0
        /\ returned.timeRemaining = [form |-> "< 1 min"]

\* the modifier of C23 in tenths: the length term, one trailing-character
\* bonus and the paragraph bonus
C23_Modifier(word) ==
    LET stripped == Cardinality({i \in 1..Len(word) : word[i] \in Letters \cup Digits})
        last == IF Len(word) = 0 THEN "" ELSE word[Len(word)]
    IN  (IF stripped <= 3 THEN 8 ELSE IF stripped >= 8 THEN 12 ELSE 10)
        + (IF last \in {".", "!", "?"} THEN 10
           ELSE IF last \in {",", ";", ":"} THEN 6
           ELSE IF last \in {"\"", "'", ")"} THEN 3
           ELSE 0)
        + (IF \E i \in 1..Len(word) : word[i] \in {Newline, Pilcrow} THEN 15 ELSE 0)

\* C23: the step delay is (60000 / rate) * modifier rounded to the nearest
\* integer, halves up, with the modifier the sum of the length term, one
\* trailing-character bonus and the paragraph bonus; delay("cat.", 300) is
\* 360 and delay("word", 300) is 200.
C23_DelayFormula ==
    lastOp = "_calculateDelay" =>
        LET word == lastArg[1]
            rate == lastArg[2]
        IN  /\ returned = (2 * 6000 * C23_Modifier(word) + rate) \div (2 * rate)
            /\ (word = <<"c","a","t",".">> /\ rate = 300) => returned = 360
            /\ (word = <<"w","o","r","d">> /\ rate = 300) => returned = 200

C26_SentenceStart ==
    lastOp = "_findSentenceStart" =>
        LET ws == lastArg[1]
            index == lastArg[2]
            ends(i) == /\ 0 <= i /\ i < Len(ws) /\ Len(ws[i + 1]) > 0
                       /\ ws[i + 1][Len(ws[i + 1])] \in {".", "!", "?"}
        IN  /\ IF \E i \in 0..(index - 1) : ends(i)
               THEN /\ ends(returned - 1) /\ returned - 1 < index
                    /\ \A i \in returned..(index - 1) : ~ends(i)
               ELSE returned = 0
            /\ (ws = SubSeq(Text, 1, 5) /\ index = 4) => returned = 2

C26_Witness ==
    /\ lastOp = "_findSentenceStart"
    /\ lastArg = <<SubSeq(Text, 1, 5), 4>>
    /\ returned = 2

\* C27: skip() without a count moves to the index right after the first
\* word at or after the position that ends in . ! or ?, but not beyond
\* length-1, or to length-1 when there is none; on A quick. brown fox
\* jumped. from index 0 it gives 2.
C27_SentenceEnd ==
    lastOp = "_findSentenceEnd" =>
        LET ws == lastArg[1]
            index == lastArg[2]
            ends(i) == /\ 0 <= i /\ i < Len(ws) /\ Len(ws[i + 1]) > 0
                       /\ ws[i + 1][Len(ws[i + 1])] \in {".", "!", "?"}
            found == {i \in index..(Len(ws) - 1) : ends(i)}
        IN  /\ IF found = {} THEN returned = Len(ws) - 1
               ELSE \E i \in found :
                        /\ \A j \in found : i <= j
                        /\ returned = (IF i + 1 > Len(ws) - 1 THEN Len(ws) - 1 ELSE i + 1)
            /\ (ws = SubSeq(Text, 1, 5) /\ index = 0) => returned = 2

C27_Witness ==
    /\ lastOp = "_findSentenceEnd"
    /\ lastArg = <<SubSeq(Text, 1, 5), 0>>
    /\ returned = 2

\* C28: with minutes = wordsRemaining / rate the time is "< 1 min" when
\* minutes < 1, ceil(minutes) min when 1 <= minutes < 60, and otherwise
\* hours = floor(minutes / 60) with m = ceil of the minutes left over.
C28_FormatTime ==
    lastOp = "_formatTime" =>
        LET wordsRemaining == lastArg[1]
            rate == lastArg[2]
        IN  IF wordsRemaining < rate THEN returned = <<"< 1 min">>
            ELSE IF wordsRemaining < 60 * rate
            THEN /\ Len(returned) = 2 /\ returned[1] = "N min"
                 /\ returned[2] * rate >= wordsRemaining
                 /\ (returned[2] - 1) * rate < wordsRemaining
            ELSE LET left == wordsRemaining - returned[2] * 60 * rate
                 IN  /\ Len(returned) = 3 /\ returned[1] = "Hh Mm"
                     /\ 0 <= left /\ left < 60 * rate
                     /\ returned[3] * rate >= left
                     /\ (returned[3] - 1) * rate < left

C28_Witness ==
    /\ lastOp = "_formatTime" /\ lastArg = <<35850, 300>>
    /\ returned = <<"Hh Mm", 1, 60>>

\* C25: every word event carries the chunk at its position joined by
\* spaces, and the split of that whole string at its ORP index: before is
\* the string up to the index, orp the character at the index (empty when
\* there is none), after the string from the index + 1 on.
C25_SplitOfJoinedChunk ==
    \A k \in 1..Len(emitted) :
        emitted[k].type = "word" =>
            LET ev == emitted[k]
                word == ev.word
                n == ev.orpIndex
            IN  /\ word = DisplayWord(words, ev.index, chunkSize)
                /\ n = calculateORP(word)
                /\ ev.before = [i \in 1..n |-> word[i]]
                /\ ev.orp = (IF n < Len(word) THEN <<word[n + 1]>> ELSE <<>>)
                /\ ev.after = [i \in 1..(Len(word) - n - 1) |-> word[n + 1 + i]]
                /\ ev.wordLength = Len(word)

C25_Witness ==
    /\ lastOp = "fire" /\ Len(emitted) = 2
    /\ emitted[1].word = <<"A"," ","q","u","i","c","k",".">>
    /\ emitted[1].before = <<"A"," ">> /\ emitted[1].orp = <<"q">>

\* C29: a step that fires while playing with the position below the length
\* emits one word event (the chunk at the position, its split, the
\* position) and then one progress event with current the same position,
\* advances the position by chunkSize, and arms one timer, with the delay
\* computed for that chunk at the stored rate.
C29_StepEmitsAdvancesArms ==
    [][(lastOp' = "fire" /\ isPlaying /\ currentIndex < Len(words)) =>
            /\ emitted' = <<WordEvent(words, currentIndex, chunkSize),
                            ProgressEvent(words, currentIndex, wpm)>>
            /\ emitted'[1].index = currentIndex
            /\ emitted'[2].data.current = currentIndex
            /\ currentIndex' = currentIndex + chunkSize
            /\ isPlaying'
            /\ Len(scheduled') = 1
            /\ scheduled'[1].delay = _calculateDelay(emitted'[1].word, wpm)
            /\ timerId' = scheduled'[1].id /\ timerId' \in pending'
            /\ Cardinality(pending') = Cardinality(pending)]_vars

C29_Witness ==
    /\ lastOp = "fire" /\ isPlaying /\ chunkSize = 3 /\ currentIndex = 4
    /\ Len(emitted) = 2 /\ emitted[1].index = 1
    /\ Len(scheduled) = 1 /\ wpm = 50

\* C30: a step that fires while playing with the position at or past the
\* length leaves the playing status, emits one end event and nothing else,
\* arms no timer and leaves the position; and no step that fires while not
\* playing moves the position.
C30_StepAtEndEnds ==
    /\ [][(lastOp' = "fire" /\ isPlaying /\ currentIndex >= Len(words)) =>
            /\ ~isPlaying'
            /\ emitted' = <<[type |-> "end"]>>
            /\ scheduled' = <<>>
            /\ Cardinality(pending') = Cardinality(pending) - 1
            /\ currentIndex' = currentIndex]_vars
    /\ [][(lastOp' = "fire" /\ ~isPlaying) =>
            /\ currentIndex' = currentIndex
            /\ scheduled' = <<>>
            /\ ~isPlaying']_vars

C30_Witness ==
    /\ lastOp = "fire" /\ ~isPlaying /\ ~isPaused /\ wasAtEnd
    /\ emitted = <<[type |-> "end"]>> /\ pending = {}
    /\ Len(words) > 0 /\ currentIndex >= Len(words)

\* C31: every word event carries, at a position inside the sequence, the
\* words from its position up to chunkSize of them, fewer only at the tail,
\* joined by spaces.
C31_ChunkIsConsecutiveWords ==
    \A k \in 1..Len(emitted) :
        emitted[k].type = "word" =>
            LET p == emitted[k].index
                hi == Min(p + chunkSize, Len(words))
            IN  /\ 0 <= p /\ p < hi
                /\ emitted[k].word = Join([i \in 1..(hi - p) |-> words[p + i]])

\* C32: play() called while the status is playing arms no timer, emits no
\* word and no progress event, and leaves the position and the armed timers.
C32_PlayWhilePlaying ==
    [][(lastOp' = "play" /\ isPlaying) =>
            /\ scheduled' = <<>>
            /\ pending' = pending
            /\ currentIndex' = currentIndex
            /\ \A k \in 1..Len(emitted') : emitted'[k].type \notin {"word", "progress"}]_vars

\* C33: when a callback of the word or progress event of a step calls
\* pause() or stop(), the step ends with the status not playing, no timer
\* armed, and the position the pause event reported.
C33_HaltInsideStep ==
    (lastOp = "fire" /\ lastArg # <<>>) =>
        /\ ~isPlaying
        /\ pending = {}
        /\ \A k \in 1..Len(emitted) :
              emitted[k].type = "pause" => currentIndex = emitted[k].wordIndex

\* C34: an end event is emitted only by a fired step that began in the
\* playing status, never while paused, idle or stopped.  The step that emits
\* end leaves the playing status and only play() enters it, so the same
\* condition allows one end event at most between two play() calls.
C34_EndOnlyWhilePlaying ==
    [][(\E k \in 1..Len(emitted') : emitted'[k].type = "end") =>
            (lastOp' = "fire" /\ isPlaying)]_vars

\* C35: after play() on a sequence that is not empty, with no other call
\* made and every armed timer firing, the run ends: the status is not
\* playing, the position is at or past the length, no timer is armed, and
\* the last step emitted end.
C35_PlaythroughEnds ==
    (lastOp = "play" /\ isPlaying /\ Len(words) > 0)
        ~> (/\ ~isPlaying
            /\ currentIndex >= Len(words)
            /\ pending = {}
            /\ lastOp = "fire"
            /\ emitted = <<[type |-> "end"]>>)

C35_Witness ==
    /\ lastOp = "fire" /\ emitted = <<[type |-> "end"]>>
    /\ ~isPlaying /\ pending = {}
    /\ Len(words) = 2 /\ chunkSize = 3 /\ currentIndex = 3

\* the word events among evs
WordEvents(evs) == SelectSeq(evs, LAMBDA ev : ev.type = "word")

\* the chunk of size words at most that starts at position p of ws; a
\* position before the sequence holds no word and is shown as nothing
ShownFrom(ws, p, size) ==
    Join([i \in 1..(Min(p + size, Len(ws)) - p) |->
            IF p + i - 1 >= 0 THEN ws[p + i] ELSE <<>>])

\* C36: in a run started by play() at position p that nothing interrupts,
\* with chunk size c, play() emits the word event of index p, every step
\* emits the word event whose index is c more than the one before, each
\* event shows the words from its index up to c of them, and the run ends
\* only once the index after the last chunk is at or past the length: the
\* chunks show every word from p on once, in order.
C36_PlaythroughCoversAll ==
    /\ [][(lastOp' = "play" /\ Len(words) > 0) =>
            LET p == IF currentIndex >= Len(words) THEN 0 ELSE currentIndex
                evs == WordEvents(emitted')
            IN  /\ Len(evs) = 1
                /\ evs[1].index = p
                /\ evs[1].word = ShownFrom(words, p, chunkSize)
                /\ currentIndex' = p + chunkSize]_vars
    /\ [][(lastOp' = "fire" /\ isPlaying) =>
            LET last == WordEvents(emitted)
                evs == WordEvents(emitted')
            IN  /\ Len(last) = 1
                /\ IF last[1].index + chunkSize < Len(words)
                   THEN /\ Len(evs) = 1
                        /\ evs[1].index = last[1].index + chunkSize
                        /\ evs[1].word = ShownFrom(words, evs[1].index, chunkSize)
                        /\ currentIndex' = evs[1].index + chunkSize
                        /\ isPlaying'
                   ELSE /\ emitted' = <<[type |-> "end"]>>
                        /\ ~isPlaying']_vars

C36_Witness ==
    /\ lastOp = "fire" /\ isPlaying /\ chunkSize = 1 /\ Len(words) = 2
    /\ Len(emitted) = 2 /\ emitted[1].type = "word" /\ emitted[1].index = 1
    /\ emitted[1].word = <<"q","u","i","c","k",".">>
    /\ currentIndex = 2

C38_FlagsExclusive == ~(isPlaying /\ isPaused)

C38_Witness == lastOp = "fire" /\ isPaused /\ ~isPlaying /\ Len(words) > 0

\* C39: rewind() without a count never moves the position forward, and a
\* second rewind() leaves the position the first one reached.
C39_RewindBackIdempotent ==
    [][(lastOp' = "rewind" /\ lastArg' = <<>>) =>
            /\ currentIndex' <= currentIndex
            /\ _findSentenceStart(words, currentIndex') = currentIndex']_vars

\* C40: for every string w, before, the ORP character and after of
\* splitAtORP(w) put together are w, orpIndex is the length of before, and
\* when w is not empty orpIndex is below its length and the ORP character is
\* one character.
C40_SplitLossless ==
    lastOp = "splitAtORP" =>
        LET w == lastArg[1]
            before == returned[1]
            orp == returned[2]
            after == returned[3]
            orpIndex == returned[4]
        IN  /\ before \o orp \o after = w
            /\ orpIndex = Len(before)
            /\ returned[5] = Len(w)
            /\ Len(w) > 0 => (orpIndex < Len(w) /\ Len(orp) = 1 /\ orp[1] = w[orpIndex + 1])

C40_Witness ==
    /\ lastOp = "splitAtORP"
    /\ lastArg = << <<"e","l","e","p","h","a","n","t",",">> >>
    /\ returned = << <<"e","l">>, <<"e">>, <<"p","h","a","n","t",",">>, 2, 9 >>

====
